---- MODULE Spec2Model ----
(***************************************************************************)
(* Model of product_similarity: main() loads the settings and the products,*)
(* init_calculate() splits the products into those without and those with  *)
(* settings and runs three nested rayon par_iter().for_each loops          *)
(* (unsettled x settled x similarity type) over a fixed thread pool; every *)
(* similarity whose value is above its minimum pushes a Product to a       *)
(* Mutex<Vec<Product>>.                                                    *)
(***************************************************************************)
EXTENDS FiniteSets, Integers, Sequences, TLC

(* ---------------- bounds of the model ---------------- *)

\* most products read from products.json
MaxProducts == 3
\* most entries of settings.similarities_types
MaxMetrics == 2
\* largest settings.num_threads
MaxThreads == 2
\* largest usize minimum of a similarity type
MaxMin == 1

(* ---------------- small helpers ---------------- *)

Min2(x, y) == IF x <= y THEN x ELSE y

Max2(x, y) == IF x >= y THEN x ELSE y

SetMin(S) == CHOOSE x \in S : \A y \in S : x <= y

SetMax(S) == CHOOSE x \in S : \A y \in S : x >= y

\* f64 values are kept as exact fractions <<numerator, denominator>>
Frac(n, d) == <<n, d>>

\* a < b on f64
FracLess(a, b) == a[1] * b[2] < b[1] * a[2]

(* ---------------- strsim, as called from init_calculate ---------------- *)

Ok(v) == [ok |-> TRUE, value |-> v]

Err == [ok |-> FALSE, value |-> 0]

\* hamming that counts the missing positions of the shorter string as differences
hammingPadded(a, b) ==
    Ok(Cardinality({i \in 1..Max2(Len(a), Len(b)) :
                       i > Len(a) \/ i > Len(b) \/ a[i] # b[i]}))

\* strsim::hamming: Err(DifferentLengthArgs) unless both have the same length
hamming(a, b) ==
    IF Len(a) # Len(b) THEN Err
    ELSE Ok(Cardinality({i \in 1..Len(a) : a[i] # b[i]}))

RECURSIVE LevAt(_, _, _, _)
LevAt(a, b, i, j) ==
    IF i = 0 THEN j
    ELSE IF j = 0 THEN i
    ELSE Min2(Min2(LevAt(a, b, i - 1, j) + 1, LevAt(a, b, i, j - 1) + 1),
              LevAt(a, b, i - 1, j - 1) + (IF a[i] = b[j] THEN 0 ELSE 1))

\* strsim::levenshtein
levenshtein(a, b) == LevAt(a, b, Len(a), Len(b))

\* strsim::normalized_levenshtein
normalized_levenshtein(a, b) ==
    IF Len(a) = 0 /\ Len(b) = 0 THEN Frac(1, 1)
    ELSE Frac(Max2(Len(a), Len(b)) - levenshtein(a, b), Max2(Len(a), Len(b)))

RECURSIVE OsaAt(_, _, _, _)
OsaAt(a, b, i, j) ==
    IF i = 0 THEN j
    ELSE IF j = 0 THEN i
    ELSE LET base == Min2(Min2(OsaAt(a, b, i - 1, j) + 1, OsaAt(a, b, i, j - 1) + 1),
                          OsaAt(a, b, i - 1, j - 1) + (IF a[i] = b[j] THEN 0 ELSE 1))
         IN  IF i > 1 /\ j > 1 /\ a[i] # b[j] /\ a[i] = b[j - 1] /\ a[i - 1] = b[j]
             THEN Min2(base, OsaAt(a, b, i - 2, j - 2) + 1)
             ELSE base

\* strsim::osa_distance: adjacent transpositions, no substring edited twice
osa_distance(a, b) == OsaAt(a, b, Len(a), Len(b))

RECURSIVE DlAt(_, _, _, _)
DlAt(a, b, i, j) ==
    IF i = 0 THEN j
    ELSE IF j = 0 THEN i
    ELSE LET base == Min2(Min2(DlAt(a, b, i - 1, j) + 1, DlAt(a, b, i, j - 1) + 1),
                          DlAt(a, b, i - 1, j - 1) + (IF a[i] = b[j] THEN 0 ELSE 1))
             ks == {k \in 1..(i - 1) : a[k] = b[j]}
             ls == {l \in 1..(j - 1) : b[l] = a[i]}
         IN  IF ks # {} /\ ls # {}
             THEN LET k == SetMax(ks)
                      l == SetMax(ls)
                  IN  Min2(base, DlAt(a, b, k - 1, l - 1) + (i - k - 1) + 1 + (j - l - 1))
             ELSE base

\* strsim::damerau_levenshtein: unrestricted transpositions
damerau_levenshtein(a, b) == DlAt(a, b, Len(a), Len(b))

\* strsim::normalized_damerau_levenshtein
normalized_damerau_levenshtein(a, b) ==
    IF Len(a) = 0 /\ Len(b) = 0 THEN Frac(1, 1)
    ELSE Frac(Max2(Len(a), Len(b)) - damerau_levenshtein(a, b), Max2(Len(a), Len(b)))

\* the matching loop of strsim::jaro: b_flags after the elements 1..i of a,
\* each taking the first unflagged equal element of b inside its window
RECURSIVE JaroFlags(_, _, _, _)
JaroFlags(a, b, range, i) ==
    IF i = 0 THEN [af |-> {}, bf |-> {}]
    ELSE LET prev == JaroFlags(a, b, range, i - 1)
             \* 0-based bounds of the source, on 1-based positions
             min_bound == IF (i - 1) > range THEN (i - 1) - range ELSE 0
             max_bound == Min2(Len(b), (i - 1) + range + 1)
             cand == {j \in 1..max_bound :
                         min_bound <= j - 1 /\ a[i] = b[j] /\ j \notin prev.bf}
         IN  IF cand = {} THEN prev
             ELSE [af |-> prev.af \cup {i}, bf |-> prev.bf \cup {SetMin(cand)}]

\* the k-th smallest element of a set of positions
RECURSIVE Nth(_, _)
Nth(S, k) == IF k = 1 THEN SetMin(S) ELSE Nth(S \ {SetMin(S)}, k - 1)

\* strsim::jaro
jaro(a, b) ==
    IF Len(a) = 0 /\ Len(b) = 0 THEN Frac(1, 1)
    ELSE IF Len(a) = 0 \/ Len(b) = 0 THEN Frac(0, 1)
    ELSE LET half == Max2(Len(a), Len(b)) \div 2
             range == IF half >= 1 THEN half - 1 ELSE 0
             fl == JaroFlags(a, b, range, Len(a))
             matches == Cardinality(fl.af)
             transpositions ==
                 Cardinality({k \in 1..matches : a[Nth(fl.af, k)] # b[Nth(fl.bf, k)]}) \div 2
         IN  IF matches = 0 THEN Frac(0, 1)
             ELSE Frac(matches * Len(b) * matches + matches * Len(a) * matches
                           + (matches - transpositions) * Len(a) * Len(b),
                       3 * Len(a) * Len(b) * matches)

\* length of the common prefix, at most 4 elements
RECURSIVE PrefixLen(_, _, _)
PrefixLen(a, b, i) ==
    IF i > 4 \/ i > Len(a) \/ i > Len(b) THEN 0
    ELSE IF a[i] = b[i] THEN 1 + PrefixLen(a, b, i + 1) ELSE 0

\* strsim::jaro_winkler: the prefix bonus applies above 0.7 (releases of strsim
\* without that test give the same value on every pair of Catalogue names)
jaro_winkler(a, b) ==
    LET sim == jaro(a, b)
        p == PrefixLen(a, b, 1)
    IN  IF FracLess(Frac(7, 10), sim)
        THEN Frac(10 * sim[1] + p * (sim[2] - sim[1]), 10 * sim[2])
        ELSE sim

\* the bigrams of a string as a sequence of pairs
bigrams(s) == [i \in 1..(IF Len(s) = 0 THEN 0 ELSE Len(s) - 1) |-> <<s[i], s[i + 1]>>]

\* size of the multiset intersection: the bigrams of b, in order, each using
\* up one not yet used equal bigram of a
RECURSIVE DiceInter(_, _, _)
DiceInter(ab, bb, i) ==
    IF i = 0 THEN {}
    ELSE LET used == DiceInter(ab, bb, i - 1)
             free == {k \in 1..Len(ab) : ab[k] = bb[i] /\ k \notin used}
         IN  IF free = {} THEN used ELSE used \cup {SetMin(free)}

\* strsim::sorensen_dice: whitespace is dropped first
sorensen_dice(a0, b0) ==
    LET a == SelectSeq(a0, LAMBDA c : c # " ")
        b == SelectSeq(b0, LAMBDA c : c # " ")
    IN  IF a = b THEN Frac(1, 1)
        ELSE IF Len(a) < 2 \/ Len(b) < 2 THEN Frac(0, 1)
        ELSE Frac(2 * Cardinality(DiceInter(bigrams(a), bigrams(b), Len(b) - 1)),
                  Len(a) + Len(b) - 2)

(* ---------------- settings.rs: Settings and SimilarityType ---------------- *)

UsizeKinds == {"Hamming", "Levenshtein", "OsaDistance", "DamerauLevenshtein"}

F64Kinds == {"NormalizedLevenshtein", "NormalizedDamerauLevenshtein", "Jaro",
             "JaroWinkler", "SorensenDice"}

\* the minimums a usize similarity type is configured with
UsizeMins == 0..MaxMin

\* the minimums an f64 similarity type is configured with
F64Mins == {Frac(1, 2), Frac(1, 1)}

\* enum SimilarityType: nine variants, each carrying its minimum
SimilarityType ==
    [kind : UsizeKinds, min : UsizeMins] \cup [kind : F64Kinds, min : F64Mins]

\* all sequences over S of length at most n
RECURSIVE SeqsUpTo(_, _)
SeqsUpTo(S, n) ==
    IF n = 0 THEN {<<>>}
    ELSE LET shorter == SeqsUpTo(S, n - 1)
         IN  shorter \cup {Append(q, x) : q \in {r \in shorter : Len(r) = n - 1}, x \in S}

\* struct Settings, as read from settings.json
Settings ==
    [num_threads : 1..MaxThreads, similarities_types : SeqsUpTo(SimilarityType, MaxMetrics)]

(* ---------------- product.rs: Product ---------------- *)

Product(id, name, settings_id) == [id |-> id, name |-> name, settings_id |-> settings_id]

\* the records products.json is made of
Catalogue ==
    << Product("u1", <<"a", "b">>, <<>>),
       Product("u2", <<"b", "a">>, <<>>),
       Product("s1", <<"a", "b">>, <<"catA">>),
       Product("s2", <<"b">>, <<"catB">>) >>

\* the elements of q at the positions in S, in order
RECURSIVE Pick(_, _)
Pick(q, S) ==
    IF S = {} THEN <<>>
    ELSE Append(Pick(q, S \ {SetMax(S)}), q[SetMax(S)])

\* the contents of products.json: any MaxProducts or fewer records, ids unique
ProductFiles ==
    {Pick(Catalogue, S) : S \in {T \in SUBSET (1..Len(Catalogue)) : Cardinality(T) <= MaxProducts}}

\* new_with_similarity that takes the identifier from the settled product
new_with_similarity_settled_id(product_without_settings, product_with_settings) ==
    Product(product_with_settings.id, product_without_settings.name,
            product_with_settings.settings_id)

\* Product::new_with_usize_similarity / new_with_f64_similarity: the value built
new_with_similarity(product_without_settings, product_with_settings) ==
    Product(product_without_settings.id, product_without_settings.name,
            product_with_settings.settings_id)

\* the tracing::info! line of Product::new_with_*_similarity
new_with_similarity_log(without_settings, with_settings, similarity_type, similarity) ==
    [without |-> without_settings.name, with |-> with_settings.name,
     similarity_type |-> similarity_type, result |-> similarity]

(* ---------------- main.rs: the match arms of init_calculate ---------------- *)

\* the strsim call of each arm; only hamming returns a Result
Similarity(similarity_type, a, b) ==
    CASE similarity_type.kind = "Hamming" -> hamming(a, b)
      [] similarity_type.kind = "Levenshtein" -> Ok(levenshtein(a, b))
      [] similarity_type.kind = "NormalizedLevenshtein" -> Ok(normalized_levenshtein(a, b))
      [] similarity_type.kind = "OsaDistance" -> Ok(osa_distance(a, b))
      [] similarity_type.kind = "DamerauLevenshtein" -> Ok(damerau_levenshtein(a, b))
      [] similarity_type.kind = "NormalizedDamerauLevenshtein" ->
             Ok(normalized_damerau_levenshtein(a, b))
      [] similarity_type.kind = "Jaro" -> Ok(jaro(a, b))
      [] similarity_type.kind = "JaroWinkler" -> Ok(jaro_winkler(a, b))
      [] similarity_type.kind = "SorensenDice" -> Ok(sorensen_dice(a, b))

\* MinLess with `<=` written for `<`
MinLessOrEqual(similarity_type, similarity) ==
    IF similarity_type.kind \in UsizeKinds
    THEN similarity_type.min <= similarity
    ELSE ~FracLess(similarity, similarity_type.min)

\* `if min < similarity`, on usize or on f64 as the variant has it
MinLess(similarity_type, similarity) ==
    IF similarity_type.kind \in UsizeKinds
    THEN similarity_type.min < similarity
    ELSE FracLess(similarity_type.min, similarity)

\* Accepts without the `if min < similarity` test
AcceptsAnyOk(similarity_type, a, b) == Similarity(similarity_type, a, b).ok

\* an arm reaches its push: `if let Ok(similarity)` (hamming) and `if min < similarity`
Accepts(similarity_type, a, b) ==
    LET r == Similarity(similarity_type, a, b)
    IN  r.ok /\ MinLess(similarity_type, r.value)

(* ---------------- state ---------------- *)

VARIABLES
    settings,                  \* main: the loaded Settings
    products,                  \* main: the loaded Vec<Product>
    pc,                        \* where main / init_calculate stands
    error,                     \* the message main fails with, "" while none
    products_without_settings, \* init_calculate: positions in products, in order
    products_with_settings,    \* init_calculate: positions in products, in order
    outer_items,               \* unsettled items of the outer par_iter not yet taken
    pair_items,                \* <<u, s>> items of the middle par_iter not yet taken
    type_items,                \* <<u, s, m>> items of the inner par_iter not yet taken
    worker,                    \* the pool threads: what each is doing
    mutex,                     \* owner of the Mutex around the result vector, 0 if free
    calculated_products,       \* the Vec<Product> inside the Mutex
    log,                       \* the tracing lines written
    output_file,               \* output.json: what a run found there, or the products written
    pair_evals,                \* times the closure of line 81 ran, per <<u, s>>
    type_evals,                \* times the closure of line 85 ran, per <<u, s, m>>
    poisoned,                  \* the Mutex is poisoned: a thread panicked holding it
    panic                      \* the message of the first failed expect, "" while none

vars == <<settings, products, pc, error, products_without_settings,
          products_with_settings, outer_items, pair_items, type_items, worker,
          mutex, calculated_products, log, output_file, pair_evals, type_evals,
          poisoned, panic>>

\* a thread between two items; a thread at work holds the positions u, s, m of
\* its item (the similarity it computed is the value of the strsim call for
\* them), the Product it built and the length its push saw
Idle == [st |-> "idle", u |-> 0, s |-> 0, m |-> 0,
         item |-> Product("", <<>>, <<>>), len |-> 0]

\* the threads of the pool built from settings.num_threads
Threads == 1..settings.num_threads

\* the elements of a sequence
Range(q) == {q[i] : i \in 1..Len(q)}

Init ==
    /\ settings \in Settings
    /\ products \in ProductFiles
    /\ pc = "init_settings"
    /\ error = ""
    /\ products_without_settings = <<>>
    /\ products_with_settings = <<>>
    /\ outer_items = {}
    /\ pair_items = {}
    /\ type_items = {}
    /\ worker = [w \in 1..settings.num_threads |-> Idle]
    /\ mutex = 0
    /\ calculated_products = <<>>
    /\ log = <<>>
    /\ output_file = [prior |-> TRUE, products |-> <<>>]
    /\ pair_evals = <<>>
    /\ type_evals = <<>>
    /\ poisoned = FALSE
    /\ panic = ""

(* ---------------- main ---------------- *)

Fail(message) ==
    /\ pc' = "failed"
    /\ error' = message

\* MainInitSettings without its ensure!
MainInitSettingsNoEnsure ==
    /\ pc = "init_settings"
    /\ pc' = "init_products"
    /\ UNCHANGED <<poisoned, panic, settings, products, error, products_without_settings,
                   products_with_settings, outer_items, pair_items, type_items, worker,
                   mutex, calculated_products, log, output_file, pair_evals, type_evals>>

\* main.rs 22-26: Settings::init and the ensure! on similarities_types
MainInitSettings ==
    /\ pc = "init_settings"
    /\ IF settings.similarities_types = <<>>
       THEN Fail("Similarity types settings not found.")
       ELSE pc' = "init_products" /\ UNCHANGED error
    /\ UNCHANGED <<poisoned, panic, settings, products, products_without_settings, products_with_settings,
                   outer_items, pair_items, type_items, worker, mutex,
                   calculated_products, log, output_file, pair_evals, type_evals>>

\* main.rs 28-34: the pool is built, Product::init and the ensure! on products
MainInitProducts ==
    /\ pc = "init_products"
    /\ IF products = <<>>
       THEN Fail("Products not found.")
       ELSE pc' = "filter_without" /\ UNCHANGED error
    /\ UNCHANGED <<poisoned, panic, settings, products, products_without_settings, products_with_settings,
                   outer_items, pair_items, type_items, worker, mutex,
                   calculated_products, log, output_file, pair_evals, type_evals>>

\* the positions of q, in order: iter() of a Vec, as references into it
Positions(q) == [i \in 1..Len(q) |-> i]

\* main.rs 48-56: products_without_settings and its ensure!
FilterWithoutSettings ==
    /\ pc = "filter_without"
    /\ products_without_settings' = SelectSeq(Positions(products), LAMBDA i : products[i].settings_id = <<>>)
    /\ IF products_without_settings' = <<>>
       THEN Fail("Products without settings not found.")
       ELSE pc' = "filter_with" /\ UNCHANGED error
    /\ UNCHANGED <<poisoned, panic, settings, products, products_with_settings,
                   outer_items, pair_items, type_items, worker, mutex,
                   calculated_products, log, output_file, pair_evals, type_evals>>

\* FilterWithSettings without its ensure!
FilterWithSettingsNoEnsure ==
    /\ pc = "filter_with"
    /\ products_with_settings' = SelectSeq(Positions(products),
                                           LAMBDA i : products[i].settings_id # <<>>)
    /\ pc' = "par_iter"
    /\ UNCHANGED <<poisoned, panic, settings, products, error, products_without_settings,
                   outer_items, pair_items, type_items, worker, mutex,
                   calculated_products, log, output_file, pair_evals, type_evals>>

\* main.rs 58-66: products_with_settings and its ensure!
FilterWithSettings ==
    /\ pc = "filter_with"
    /\ products_with_settings' = SelectSeq(Positions(products), LAMBDA i : products[i].settings_id # <<>>)
    /\ IF products_with_settings' = <<>>
       THEN Fail("Products with settings not found.")
       ELSE pc' = "par_iter" /\ UNCHANGED error
    /\ UNCHANGED <<poisoned, panic, settings, products, products_without_settings,
                   outer_items, pair_items, type_items, worker, mutex,
                   calculated_products, log, output_file, pair_evals, type_evals>>

\* main.rs 68-78: the info line, the empty Mutex<Vec>, and the outer par_iter
\* hands its items to the pool; main blocks in for_each
ParIterStart ==
    /\ pc = "par_iter"
    /\ log' = Append(log, [info |-> <<Len(products_with_settings),
                                      Len(products_without_settings)>>])
    /\ calculated_products' = <<>>
    /\ mutex' = 0
    /\ outer_items' = Range(products_without_settings)
    /\ pair_evals' = [p \in Range(products_without_settings)
                              \X Range(products_with_settings) |-> 0]
    /\ type_evals' = [t \in Range(products_without_settings)
                              \X Range(products_with_settings)
                              \X (1..Len(settings.similarities_types)) |-> 0]
    /\ pc' = "for_each"
    /\ UNCHANGED <<poisoned, panic, settings, products, error, products_without_settings,
                   products_with_settings, pair_items, type_items, worker, output_file>>

(* ---------------- the pool threads ---------------- *)

\* rayon splits a par_iter in halves and joins them: a pool of one thread runs
\* the first half, then the second, so the items of each of the three nested
\* par_iter are taken in order and an inner par_iter is finished before the
\* next item of the enclosing one; threads of a larger pool steal halves from
\* each other and take the items in any order
OuterTurn(u) ==
    settings.num_threads > 1
        \/ (pair_items = {} /\ type_items = {} /\ u = SetMin(outer_items))

PairTurn(u, s) ==
    settings.num_threads > 1
        \/ (type_items = {} /\ s = SetMin({p[2] : p \in pair_items}))

\* TypeTurn for a par_iter whose items are taken in any order by one thread too
TypeTurnAnyOrder(u, s, m) == TRUE

TypeTurn(u, s, m) ==
    settings.num_threads > 1 \/ m = SetMin({t[3] : t \in type_items})

\* OuterClosure that pairs the product with the first settled product only
OuterClosureFirstOnly(w, u) ==
    /\ pc = "for_each"
    /\ worker[w].st = "idle"
    /\ u \in outer_items
    /\ OuterTurn(u)
    /\ outer_items' = outer_items \ {u}
    /\ pair_items' = pair_items \cup {<<u, products_with_settings[1]>>}
    /\ UNCHANGED <<poisoned, panic, settings, products, pc, error, products_without_settings,
                   products_with_settings, type_items, worker, mutex,
                   calculated_products, log, output_file, pair_evals, type_evals>>

\* main.rs 76-80: a thread runs the outer closure for one product without
\* settings; its par_iter over products_with_settings yields one item per pair
OuterClosure(w, u) ==
    /\ pc = "for_each"
    /\ worker[w].st = "idle"
    /\ u \in outer_items
    /\ OuterTurn(u)
    /\ outer_items' = outer_items \ {u}
    /\ pair_items' = pair_items \cup {<<u, s>> : s \in Range(products_with_settings)}
    /\ UNCHANGED <<poisoned, panic, settings, products, pc, error, products_without_settings,
                   products_with_settings, type_items, worker, mutex,
                   calculated_products, log, output_file, pair_evals, type_evals>>

\* PairClosure that stops at the first similarity type that accepts the pair
PairClosureFirstPass(w, u, s) ==
    /\ pc = "for_each"
    /\ worker[w].st = "idle"
    /\ <<u, s>> \in pair_items
    /\ PairTurn(u, s)
    /\ pair_items' = pair_items \ {<<u, s>>}
    /\ pair_evals' = [pair_evals EXCEPT ![<<u, s>>] = @ + 1]
    /\ type_items' = type_items \cup
          {<<u, s, m>> : m \in {k \in 1..Len(settings.similarities_types) :
              \A j \in 1..(k - 1) : ~Accepts(settings.similarities_types[j],
                                             products[u].name, products[s].name)}}
    /\ UNCHANGED <<poisoned, panic, settings, products, pc, error, products_without_settings,
                   products_with_settings, outer_items, worker, mutex,
                   calculated_products, log, output_file, type_evals>>

\* PairClosure that leaves its item to be taken again
PairClosureAgain(w, u, s) ==
    /\ pc = "for_each"
    /\ worker[w].st = "idle"
    /\ <<u, s>> \in pair_items
    /\ PairTurn(u, s)
    /\ pair_evals[<<u, s>>] < 2
    /\ pair_evals' = [pair_evals EXCEPT ![<<u, s>>] = @ + 1]
    /\ type_items' = type_items \cup
                        {<<u, s, m>> : m \in 1..Len(settings.similarities_types)}
    /\ UNCHANGED <<poisoned, panic, settings, products, pc, error, products_without_settings,
                   products_with_settings, outer_items, pair_items, worker, mutex,
                   calculated_products, log, output_file, type_evals>>

\* main.rs 81-85: a thread runs the middle closure for one pair; its par_iter
\* over similarities_types yields one item per similarity type
PairClosure(w, u, s) ==
    /\ pc = "for_each"
    /\ worker[w].st = "idle"
    /\ <<u, s>> \in pair_items
    /\ PairTurn(u, s)
    /\ pair_items' = pair_items \ {<<u, s>>}
    /\ pair_evals' = [pair_evals EXCEPT ![<<u, s>>] = @ + 1]
    /\ type_items' = type_items \cup
                        {<<u, s, m>> : m \in 1..Len(settings.similarities_types)}
    /\ UNCHANGED <<poisoned, panic, settings, products, pc, error, products_without_settings,
                   products_with_settings, outer_items, worker, mutex,
                   calculated_products, log, output_file, type_evals>>

\* TypeClosure in which an Err of the strsim call unwinds the whole pass
TypeClosureAbortOnErr(w, u, s, m) ==
    /\ pc = "for_each"
    /\ worker[w].st = "idle"
    /\ <<u, s, m>> \in type_items
    /\ TypeTurn(u, s, m)
    /\ type_evals' = [type_evals EXCEPT ![<<u, s, m>>] = @ + 1]
    /\ LET similarity_type == settings.similarities_types[m]
           r == Similarity(similarity_type, products[u].name, products[s].name)
       IN  /\ IF Accepts(similarity_type, products[u].name, products[s].name)
              THEN worker' = [worker EXCEPT ![w] =
                                 [Idle EXCEPT !.st = "lock", !.u = u, !.s = s, !.m = m]]
              ELSE UNCHANGED worker
           /\ IF r.ok
              THEN /\ type_items' = type_items \ {<<u, s, m>>}
                   /\ UNCHANGED <<outer_items, pair_items>>
              ELSE /\ type_items' = {}
                   /\ pair_items' = {}
                   /\ outer_items' = {}
    /\ UNCHANGED <<poisoned, panic, settings, products, pc, error, products_without_settings,
                   products_with_settings, mutex,
                   calculated_products, log, output_file, pair_evals>>

\* TypeClosure with products.lock() hoisted above the strsim call
TypeClosureLockFirst(w, u, s, m) ==
    /\ pc = "for_each"
    /\ worker[w].st = "idle"
    /\ <<u, s, m>> \in type_items
    /\ TypeTurn(u, s, m)
    /\ mutex = 0
    /\ type_items' = type_items \ {<<u, s, m>>}
    /\ type_evals' = [type_evals EXCEPT ![<<u, s, m>>] = @ + 1]
    /\ IF Accepts(settings.similarities_types[m], products[u].name, products[s].name)
       THEN /\ worker' = [worker EXCEPT ![w] =
                             [Idle EXCEPT !.st = "new", !.u = u, !.s = s, !.m = m]]
            /\ mutex' = w
       ELSE UNCHANGED <<worker, mutex>>
    /\ UNCHANGED <<poisoned, panic, settings, products, pc, error, products_without_settings,
                   products_with_settings, outer_items, pair_items,
                   calculated_products, log, output_file, pair_evals>>

\* main.rs 85-91 (and the same lines of the other eight arms): a thread runs
\* the inner closure for one similarity type of one pair, up to `if min < similarity`
TypeClosure(w, u, s, m) ==
    /\ pc = "for_each"
    /\ worker[w].st = "idle"
    /\ <<u, s, m>> \in type_items
    /\ TypeTurn(u, s, m)
    /\ type_items' = type_items \ {<<u, s, m>>}
    /\ type_evals' = [type_evals EXCEPT ![<<u, s, m>>] = @ + 1]
    /\ IF Accepts(settings.similarities_types[m], products[u].name, products[s].name)
       THEN worker' = [worker EXCEPT ![w] =
                          [Idle EXCEPT !.st = "lock", !.u = u, !.s = s, !.m = m]]
       ELSE UNCHANGED worker
    /\ UNCHANGED <<poisoned, panic, settings, products, pc, error, products_without_settings,
                   products_with_settings, outer_items, pair_items, mutex,
                   calculated_products, log, output_file, pair_evals>>

\* a Mutex that lets every thread in
MutexAlwaysFree(w) == TRUE

\* the Mutex lets a thread in when no thread owns it
MutexFree(w) == mutex = 0

\* Lock as a try_lock: a thread that finds the Mutex taken drops its result
LockOrSkip(w) ==
    /\ worker[w].st = "lock"
    /\ IF MutexFree(w)
       THEN mutex' = w /\ worker' = [worker EXCEPT ![w].st = "new"]
       ELSE UNCHANGED mutex /\ worker' = [worker EXCEPT ![w] = Idle]
    /\ UNCHANGED <<poisoned, panic, settings, products, pc, error, products_without_settings,
                   products_with_settings, outer_items, pair_items, type_items,
                   calculated_products, log, output_file, pair_evals, type_evals>>

\* main.rs 92-94: products.lock().expect(..): lock() is Err on a poisoned
\* Mutex and the expect panics; the thread unwinds out of its item
Lock(w) ==
    /\ worker[w].st = "lock"
    /\ MutexFree(w)
    /\ IF poisoned
       THEN /\ panic' = "Lock is already held by the current thread."
            /\ worker' = [worker EXCEPT ![w] = Idle]
            /\ UNCHANGED mutex
       ELSE /\ mutex' = w
            /\ worker' = [worker EXCEPT ![w].st = "new"]
            /\ UNCHANGED panic
    /\ UNCHANGED <<poisoned, settings, products, pc, error, products_without_settings,
                   products_with_settings, outer_items, pair_items, type_items,
                   calculated_products, log, output_file, pair_evals, type_evals>>

\* NewProduct whose Product::new_with_*_similarity panics: the guard is dropped
\* by the unwinding, which poisons the Mutex
NewProductPanics(w) ==
    /\ worker[w].st = "new"
    /\ poisoned' = TRUE
    /\ panic' = IF panic = "" THEN "new_with_similarity" ELSE panic
    /\ mutex' = 0
    /\ worker' = [worker EXCEPT ![w] = Idle]
    /\ UNCHANGED <<settings, products, pc, error, products_without_settings,
                   products_with_settings, outer_items, pair_items, type_items,
                   calculated_products, log, output_file, pair_evals, type_evals>>

\* NewProduct whose Product::new_with_*_similarity writes no info line
NewProductNoLog(w) ==
    /\ worker[w].st = "new"
    /\ worker' = [worker EXCEPT ![w].st = "push",
                                ![w].item = new_with_similarity(products[worker[w].u],
                                                                products[worker[w].s])]
    /\ UNCHANGED <<poisoned, panic, settings, products, pc, error, products_without_settings,
                   products_with_settings, outer_items, pair_items, type_items, mutex,
                   calculated_products, log, output_file, pair_evals, type_evals>>

\* main.rs 96-101: the argument of push, Product::new_with_*_similarity,
\* which writes its info line and builds the Product
NewProduct(w) ==
    /\ worker[w].st = "new"
    /\ log' = Append(log, new_with_similarity_log(products[worker[w].u],
                              products[worker[w].s],
                              settings.similarities_types[worker[w].m],
                              Similarity(settings.similarities_types[worker[w].m],
                                         products[worker[w].u].name,
                                         products[worker[w].s].name).value))
    /\ worker' = [worker EXCEPT ![w].st = "push",
                                ![w].item = new_with_similarity(products[worker[w].u],
                                                                products[worker[w].s])]
    /\ UNCHANGED <<poisoned, panic, settings, products, pc, error, products_without_settings,
                   products_with_settings, outer_items, pair_items, type_items, mutex,
                   calculated_products, output_file, pair_evals, type_evals>>

\* main.rs 96: Vec::push reads the length of the vector (and grows it) ...
PushReserve(w) ==
    /\ worker[w].st = "push"
    /\ worker' = [worker EXCEPT ![w].st = "write", ![w].len = Len(calculated_products)]
    /\ UNCHANGED <<poisoned, panic, settings, products, pc, error, products_without_settings,
                   products_with_settings, outer_items, pair_items, type_items, mutex,
                   calculated_products, log, output_file, pair_evals, type_evals>>

\* PushWrite that never drops the guard
PushWriteKeepLock(w) ==
    /\ worker[w].st = "write"
    /\ calculated_products' = Append(SubSeq(calculated_products, 1, worker[w].len),
                                     worker[w].item)
    /\ worker' = [worker EXCEPT ![w] = Idle]
    /\ UNCHANGED <<poisoned, panic, settings, products, pc, error, products_without_settings,
                   products_with_settings, outer_items, pair_items, type_items, mutex,
                   log, output_file, pair_evals, type_evals>>

\* VecWrite that leaves out an item the vector already holds
VecWriteDedup(vec, len, item) ==
    IF \E i \in 1..Len(vec) : vec[i] = item THEN vec ELSE Append(SubSeq(vec, 1, len), item)

\* the vector after a push that saw length len
VecWrite(vec, len, item) == Append(SubSeq(vec, 1, len), item)

\* main.rs 96-102: ... writes the item at that length and sets the new length;
\* the guard is dropped at the end of the block
PushWrite(w) ==
    /\ worker[w].st = "write"
    /\ calculated_products' = VecWrite(calculated_products, worker[w].len, worker[w].item)
    /\ mutex' = IF mutex = w THEN 0 ELSE mutex
    /\ worker' = [worker EXCEPT ![w] = Idle]
    /\ UNCHANGED <<poisoned, panic, settings, products, pc, error, products_without_settings,
                   products_with_settings, outer_items, pair_items, type_items,
                   log, output_file, pair_evals, type_evals>>

(* ---------------- after the parallel pass ---------------- *)

\* PassComplete that waits for the outer items only
PassCompleteOuterOnly == outer_items = {}

\* every item of the three par_iter is done and every thread is back
PassComplete ==
    /\ outer_items = {}
    /\ pair_items = {}
    /\ type_items = {}
    /\ \A w \in Threads : worker[w].st = "idle"

\* owners of the Arc when for_each has returned: the closures borrow
\* `products`, nothing clones the Arc made at main.rs 74
ArcStrongCount == 1

\* main.rs 259-266, 36: for_each returns (resuming a panic of a pool thread in
\* main), Arc::try_unwrap(..).expect(..) takes the Mutex out of the Arc,
\* into_inner().expect(..) takes the Vec out of the Mutex, and the Vec is
\* returned to main
ForEachReturn ==
    /\ pc = "for_each"
    /\ PassComplete
    /\ IF panic # ""
       THEN pc' = "panicked" /\ UNCHANGED panic
       ELSE IF ArcStrongCount # 1
       THEN pc' = "panicked" /\ panic' = "Error on Arc::try_unwrap products."
       ELSE IF poisoned
       THEN pc' = "panicked" /\ panic' = "Error on Arc::try_unwrap::into_inner products."
       ELSE pc' = "ensure_calculated" /\ UNCHANGED panic
    /\ UNCHANGED <<poisoned, settings, products, error, products_without_settings,
                   products_with_settings, outer_items, pair_items, type_items, worker,
                   mutex, calculated_products, log, output_file, pair_evals, type_evals>>

\* MainEnsureCalculated without its ensure!
MainEnsureCalculatedNoEnsure ==
    /\ pc = "ensure_calculated"
    /\ pc' = "write_output"
    /\ UNCHANGED <<poisoned, panic, settings, products, error, products_without_settings,
                   products_with_settings, outer_items, pair_items, type_items, worker,
                   mutex, calculated_products, log, output_file, pair_evals, type_evals>>

\* main.rs 37-40: the ensure! on calculated_products
MainEnsureCalculated ==
    /\ pc = "ensure_calculated"
    /\ IF calculated_products = <<>>
       THEN Fail("Calculated products empty.")
       ELSE pc' = "write_output" /\ UNCHANGED error
    /\ UNCHANGED <<poisoned, panic, settings, products, products_without_settings, products_with_settings,
                   outer_items, pair_items, type_items, worker, mutex,
                   calculated_products, log, output_file, pair_evals, type_evals>>

\* main.rs 42-44, output.rs 8-16: output.json is overwritten with the result
WriteOutput ==
    /\ pc = "write_output"
    /\ output_file' = [prior |-> FALSE, products |-> calculated_products]
    /\ pc' = "done"
    /\ UNCHANGED <<poisoned, panic, settings, products, error, products_without_settings,
                   products_with_settings, outer_items, pair_items, type_items, worker,
                   mutex, calculated_products, log, pair_evals, type_evals>>

Next ==
    \/ MainInitSettings
    \/ MainInitProducts
    \/ FilterWithoutSettings
    \/ FilterWithSettings
    \/ ParIterStart
    \/ \E w \in Threads : \E u \in outer_items : OuterClosure(w, u)
    \/ \E w \in Threads : \E p \in pair_items : PairClosure(w, p[1], p[2])
    \/ \E w \in Threads : \E t \in type_items : TypeClosure(w, t[1], t[2], t[3])
    \/ \E w \in Threads : Lock(w)
    \/ \E w \in Threads : NewProduct(w)
    \/ \E w \in Threads : PushReserve(w)
    \/ \E w \in Threads : PushWrite(w)
    \/ ForEachReturn
    \/ MainEnsureCalculated
    \/ WriteOutput

Spec == Init /\ [][Next]_vars

\* the similarity types of the runs checked for termination: a usize one that
\* can error, a usize one that cannot, and an f64 one
TerminationTypes ==
    {[kind |-> "Hamming", min |-> 0], [kind |-> "Levenshtein", min |-> 0],
     [kind |-> "Jaro", min |-> Frac(1, 2)]}

FairInit ==
    /\ Init
    /\ \A i \in 1..Len(settings.similarities_types) :
          settings.similarities_types[i] \in TerminationTypes

\* the threads of the pool and main are scheduled by the operating system: a
\* step that can be taken is taken in the end
FairSpec == FairInit /\ [][Next]_vars /\ WF_vars(Next)

(* ---------------- what the properties speak of ---------------- *)

\* positions of the unsettled / settled records of the input
Unsettled == {i \in 1..Len(products) : Len(products[i].settings_id) = 0}

Settled == {i \in 1..Len(products) : Len(products[i].settings_id) > 0}

MetricPositions == 1..Len(settings.similarities_types)

\* the metric at position m fails to compute for the pair: Hamming on names of
\* unequal length
MetricErrors(u, s, m) ==
    /\ settings.similarities_types[m].kind = "Hamming"
    /\ Len(products[u].name) # Len(products[s].name)

\* the value of the metric at position m for the pair strictly exceeds its threshold
Exceeds(u, s, m) ==
    LET t == settings.similarities_types[m]
        v == Similarity(t, products[u].name, products[s].name).value
    IN  /\ ~MetricErrors(u, s, m)
        /\ IF t.kind \in {"Hamming", "Levenshtein", "OsaDistance", "DamerauLevenshtein"}
           THEN v >= t.min + 1
           ELSE v[1] * t.min[2] > t.min[1] * v[2]

\* the value of the metric at position m for the pair equals its threshold
OnThreshold(u, s, m) ==
    LET t == settings.similarities_types[m]
        v == Similarity(t, products[u].name, products[s].name).value
    IN  /\ ~MetricErrors(u, s, m)
        /\ IF t.kind \in {"Hamming", "Levenshtein", "OsaDistance", "DamerauLevenshtein"}
           THEN v = t.min
           ELSE v[1] * t.min[2] = t.min[1] * v[2]

\* the entries of the result collection that come from the pair <<u, s>>
\* (identifiers and settings are unique in the input)
EntriesOf(u, s) ==
    {i \in 1..Len(calculated_products) :
        /\ calculated_products[i].id = products[u].id
        /\ calculated_products[i].settings_id = products[s].settings_id}

\* the parallel pass is running or over
MatchingBegan == pc \in {"for_each", "ensure_calculated", "write_output", "done"}
                    \/ (pc = "failed" /\ error = "Calculated products empty.")

\* the parallel pass is over
MatchingDone == MatchingBegan /\ pc # "for_each"

\* the log lines written for the metric at position m of the pair <<u, s>>
LogLinesOf(u, s, m) ==
    {i \in 1..Len(log) :
        /\ "result" \in DOMAIN log[i]
        /\ log[i].without = products[u].name
        /\ log[i].with = products[s].name
        /\ log[i].similarity_type = settings.similarities_types[m]}

(* ---------------- C1 ---------------- *)

C3_StrictThreshold ==
    [][\A t \in DOMAIN type_evals :
          type_evals'[t] = type_evals[t] + 1 =>
             ((\E w \in Threads :
                  /\ worker[w].st = "idle"
                  /\ worker'[w].st = "lock"
                  /\ <<worker'[w].u, worker'[w].s, worker'[w].m>> = t)
              <=> Exceeds(t[1], t[2], t[3]))]_vars

\* a pass is over in which a value equal to its threshold pushed nothing, and
\* a value above its threshold pushed an entry
C3_Witness ==
    /\ MatchingDone
    /\ \E t \in DOMAIN type_evals :
          /\ OnThreshold(t[1], t[2], t[3])
          /\ LogLinesOf(t[1], t[2], t[3]) = {}
          /\ EntriesOf(t[1], t[2]) = {}
    /\ \E t \in DOMAIN type_evals :
          /\ Exceeds(t[1], t[2], t[3])
          /\ EntriesOf(t[1], t[2]) # {}

(* ---------------- C4 ---------------- *)

\* C4: a pair for which every configured metric errors or does not pass has no
\* entry in the result collection, at any time.
C4_NoMatchNoEntry ==
    \A u \in Unsettled, s \in Settled :
        (\A m \in MetricPositions : MetricErrors(u, s, m) \/ ~Exceeds(u, s, m))
            => EntriesOf(u, s) = {}

\* a pass is over that had a pair with one metric in error and the other not
\* passing, and that pushed entries for another pair
C4_Witness ==
    /\ MatchingDone
    /\ calculated_products # <<>>
    /\ \E u \in Unsettled, s \in Settled :
          /\ \E m \in MetricPositions : MetricErrors(u, s, m)
          /\ \E m \in MetricPositions : ~MetricErrors(u, s, m) /\ ~Exceeds(u, s, m)
          /\ \A m \in MetricPositions : type_evals[<<u, s, m>>] = 1
          /\ EntriesOf(u, s) = {}

(* ---------------- C5 ---------------- *)

\* C5: once the parallel pass is over, every pair for which some configured
\* metric strictly exceeds its threshold has an entry with the unsettled
\* record's identifier and the settled record's settings; an unsettled record
\* that matches k settled records has entries for all k.
C5_EveryMatchHasEntry ==
    MatchingDone =>
        \A u \in Unsettled, s \in Settled :
            (\E m \in MetricPositions : Exceeds(u, s, m)) =>
                \E i \in 1..Len(calculated_products) :
                    /\ calculated_products[i].id = products[u].id
                    /\ calculated_products[i].settings_id = products[s].settings_id

\* a pass is over in which one unsettled record has entries for two settled records
C5_Witness ==
    /\ MatchingDone
    /\ \E u \in Unsettled : \E s1 \in Settled, s2 \in Settled :
          /\ s1 # s2
          /\ EntriesOf(u, s1) # {}
          /\ EntriesOf(u, s2) # {}

(* ---------------- C6 ---------------- *)

\* C6: no pair is evaluated twice, and once the parallel pass is over every
\* pair of the cross-product has been evaluated exactly once, U x S
\* evaluations in all, whatever the pool size and the interleaving.
C6_EveryPairOnce ==
    /\ \A p \in DOMAIN pair_evals : pair_evals[p] <= 1
    /\ MatchingDone =>
          /\ DOMAIN pair_evals = Unsettled \X Settled
          /\ \A p \in DOMAIN pair_evals : pair_evals[p] = 1
          /\ Cardinality({p \in DOMAIN pair_evals : pair_evals[p] = 1})
                = Cardinality(Unsettled) * Cardinality(Settled)

\* a pass over two pairs is over, run by a pool of two threads
C6_Witness ==
    /\ MatchingDone
    /\ settings.num_threads = 2
    /\ Cardinality(Unsettled) * Cardinality(Settled) = 2
    /\ \A p \in Unsettled \X Settled : pair_evals[p] = 1

(* ---------------- C7 ---------------- *)

\* the entries the inputs and the config call for, whatever the schedule
ExpectedEntries ==
    {[id |-> products[u].id, name |-> products[u].name,
      settings_id |-> products[s].settings_id] :
        <<u, s>> \in {p \in Unsettled \X Settled :
                         \E m \in MetricPositions : Exceeds(p[1], p[2], m)}}

\* C7: once the parallel pass is over, the result collection viewed as a set
\* is a function of the input records and the metric list alone: it is the
\* same in every interleaving and for every pool size.
C7_ScheduleIndependent ==
    MatchingDone => Range(calculated_products) = ExpectedEntries

\* a pass of two threads is over whose entries were not pushed in the order of
\* the input records
C7_Witness ==
    /\ MatchingDone
    /\ settings.num_threads = 2
    /\ Len(calculated_products) >= 2
    /\ \E i \in 1..Len(calculated_products), j \in 1..Len(calculated_products) :
          /\ i < j
          /\ calculated_products[i].id = "u2"
          /\ calculated_products[j].id = "u1"

(* ---------------- C8 ---------------- *)

\* the threads between products.lock() and the end of the block of the push
InCriticalSection == {w \in Threads : worker[w].st \in {"new", "push", "write"}}

\* C8: at most one thread is inside the append critical section, and it is the
\* owner of the lock; and an append never loses or overwrites an entry: every
\* step leaves the entries already there in place and an append adds exactly
\* its own entry at the end.
C8_AppendsSerialized ==
    /\ [](/\ Cardinality(InCriticalSection) <= 1
          /\ \A w \in InCriticalSection : mutex = w)
    /\ [][/\ Len(calculated_products') >= Len(calculated_products)
          /\ SubSeq(calculated_products', 1, Len(calculated_products))
                = calculated_products
          /\ \A w \in Threads :
                (worker[w].st = "write" /\ worker'[w].st = "idle") =>
                   calculated_products' = Append(calculated_products, worker[w].item)]_vars

\* one thread is inside the critical section while the other waits for the lock
C8_Witness ==
    \E w \in Threads, v \in Threads :
        /\ worker[w].st = "write"
        /\ mutex = w
        /\ worker[v].st = "lock"
        /\ calculated_products # <<>>

(* ---------------- C9 ---------------- *)

\* C9: when every input record is unsettled or every input record is settled,
\* the run never reaches the parallel pass, no pair and no metric is ever
\* evaluated, nothing is appended, and the run does not stop other than in an
\* error.
C9_PartitionValidated ==
    (Settled = {} \/ Unsettled = {}) =>
        /\ pc \in {"init_settings", "init_products", "filter_without",
                   "filter_with", "failed"}
        /\ pc = "failed" => error \in {"Similarity types settings not found.",
                                       "Products not found.",
                                       "Products without settings not found.",
                                       "Products with settings not found."}
        /\ pc # "failed" => ENABLED Next
        /\ DOMAIN type_evals = {}
        /\ DOMAIN pair_evals = {}
        /\ calculated_products = <<>>

\* a run over two unsettled records and no settled one has failed
C9_Witness ==
    /\ Cardinality(Unsettled) = 2
    /\ Settled = {}
    /\ pc = "failed"
    /\ error = "Products with settings not found."

(* ---------------- C10 ---------------- *)

\* C10: a metric that errors for a pair contributes no entry and no log line for
\* it; the pass goes on (a thread can always take a step until the pass is
\* complete), and once it is over every other metric of that pair and every
\* other pair have been evaluated; the run does not fail for the error.
C10_MetricErrorContained ==
    \A t \in DOMAIN type_evals :
        (MetricErrors(t[1], t[2], t[3]) /\ type_evals[t] >= 1) =>
            /\ LogLinesOf(t[1], t[2], t[3]) = {}
            /\ \A w \in Threads : <<worker[w].u, worker[w].s, worker[w].m>> # t
            /\ pc = "for_each" => ENABLED Next
            /\ pc # "for_each" =>
                  /\ \A m \in MetricPositions : type_evals[<<t[1], t[2], m>>] = 1
                  /\ \A p \in Unsettled \X Settled : pair_evals[p] = 1
                  /\ \A r \in Unsettled \X Settled \X MetricPositions : type_evals[r] = 1
            /\ pc = "failed" => (error = "Calculated products empty."
                                    /\ calculated_products = <<>>)

\* a run is done in which the first metric errored for a pair and the second
\* metric gave that pair its entry
C10_Witness ==
    /\ pc = "done"
    /\ \E u \in Unsettled, s \in Settled :
          /\ Len(settings.similarities_types) = 2
          /\ MetricErrors(u, s, 1)
          /\ Exceeds(u, s, 2)
          /\ EntriesOf(u, s) # {}

(* ---------------- C11 ---------------- *)

\* C11: when no metric passes for any pair, the run does not go on to write
\* its output: it ends in the empty-result error, and that error exists only
\* when every pair and every metric of the cross-product has been evaluated,
\* every thread is back and no item is pending.
C11_EmptyResultAfterFullPass ==
    /\ (\A u \in Unsettled, s \in Settled, m \in MetricPositions : ~Exceeds(u, s, m))
          => (/\ pc \notin {"write_output", "done", "panicked"}
              /\ pc # "failed" => ENABLED Next)
    /\ error = "Calculated products empty." =>
          /\ pc = "failed"
          /\ calculated_products = <<>>
          /\ outer_items = {} /\ pair_items = {} /\ type_items = {}
          /\ \A w \in Threads : worker[w].st = "idle"
          /\ \A p \in Unsettled \X Settled : pair_evals[p] = 1
          /\ \A t \in Unsettled \X Settled \X MetricPositions : type_evals[t] = 1

\* a run over two pairs and two metrics has failed for its empty result
C11_Witness ==
    /\ pc = "failed"
    /\ error = "Calculated products empty."
    /\ Cardinality(Unsettled \X Settled) = 2
    /\ Cardinality(MetricPositions) = 2
    /\ \A t \in Unsettled \X Settled \X MetricPositions : type_evals[t] = 1

(* ---------------- C12 ---------------- *)

\* C12: every entry of the result collection, at any time, has the identifier
\* and the name of one unsettled input record and the settings of one settled
\* input record; none has the identifier of a settled record or empty settings.
C12_ResultProvenance ==
    \A i \in 1..Len(calculated_products) :
        LET e == calculated_products[i]
        IN  /\ \E u \in Unsettled : e.id = products[u].id /\ e.name = products[u].name
            /\ \E s \in Settled : e.settings_id = products[s].settings_id
            /\ e.settings_id # <<>>
            /\ \A s \in Settled : e.id # products[s].id

\* an entry pairs an unsettled record with a settled record of another name
C12_Witness ==
    \E i \in 1..Len(calculated_products) : \E u \in Unsettled, s \in Settled :
        /\ calculated_products[i].id = products[u].id
        /\ calculated_products[i].settings_id = products[s].settings_id
        /\ products[u].name # products[s].name

(* ---------------- C13 ---------------- *)

\* the log lines of metric evaluations (not the "Products: .. / .." line)
ResultLines == {i \in 1..Len(log) : "result" \in DOMAIN log[i]}

\* the metric evaluations performed so far
Evaluations == {t \in DOMAIN type_evals : type_evals[t] >= 1}

C14_FatalConfigChecks ==
    (settings.similarities_types = <<>> \/ products = <<>>) =>
        /\ pc \in {"init_settings", "init_products", "failed"}
        /\ pc = "failed" =>
              error = (IF settings.similarities_types = <<>>
                       THEN "Similarity types settings not found."
                       ELSE "Products not found.")
        /\ pc # "failed" => ENABLED Next
        /\ DOMAIN pair_evals = {}
        /\ DOMAIN type_evals = {}
        /\ calculated_products = <<>>
        /\ log = <<>>

\* a run with records of both kinds and no metric has failed
C14_Witness ==
    /\ settings.similarities_types = <<>>
    /\ Unsettled # {}
    /\ Settled # {}
    /\ pc = "failed"
    /\ error = "Similarity types settings not found."

(* ---------------- C15 ---------------- *)

C16_RunsToCompletion ==
    /\ (pc = "for_each") ~>
          (/\ pc # "for_each"
           /\ outer_items = {} /\ pair_items = {} /\ type_items = {}
           /\ \A w \in Threads : worker[w].st = "idle"
           /\ mutex = 0)
    /\ \A w \in 1..(MaxThreads + 1) :
          (w \in Threads /\ worker[w].st = "lock")
              ~> (w \notin Threads \/ worker[w].st # "lock")
    /\ [](pc = "for_each" => ENABLED Next)
    /\ [][\A w \in Threads : (mutex' = w /\ worker[w].st = "lock") => mutex = 0]_vars

\* a pass of two threads in which four entries were pushed is over, the lock free
C16_Witness ==
    /\ pc = "ensure_calculated"
    /\ settings.num_threads = 2
    /\ Len(calculated_products) = 4
    /\ mutex = 0
    /\ \A w \in Threads : worker[w].st = "idle"

(* ---------------- C17 ---------------- *)

\* C17, as stated: a thread that holds the lock only appends: while it holds
\* the lock no log line is written and it builds no result.
C17_LockHeldForAppendOnly ==
    [][\A w \in Threads :
          (mutex = w /\ mutex' = w) =>
              (log' = log /\ worker'[w].item = worker[w].item)]_vars

\* C17, amended: a thread holds the lock for the construction and the logging
\* of one result and for its append: it takes the lock after the metric was
\* computed, in a step that does nothing else; while it holds the lock it
\* computes no metric; it writes one log line and appends one entry, and the
\* append releases the lock.
C17_LockHeldForOneResult ==
    /\ [](/\ mutex # 0 => worker[mutex].st \in {"new", "push", "write"}
          /\ Cardinality(ResultLines)
                = Len(calculated_products)
                     + Cardinality({w \in Threads : worker[w].st \in {"push", "write"}}))
    /\ [][\A w \in Threads :
             /\ (mutex' = w /\ mutex # w) =>
                   /\ worker[w].st = "lock"
                   /\ type_evals' = type_evals
                   /\ log' = log
                   /\ calculated_products' = calculated_products
             /\ (mutex = w /\ mutex' = w) =>
                   /\ calculated_products' = calculated_products
                   /\ type_evals' # type_evals => worker'[w] = worker[w]
             /\ (mutex = w /\ mutex' # w) =>
                   /\ mutex' = 0
                   /\ calculated_products' = Append(calculated_products, worker[w].item)
                   /\ log' = log]_vars

\* a thread that holds the lock has written its log line and built its result,
\* and has not appended it yet
C17_Witness ==
    \E w \in Threads :
        /\ mutex = w
        /\ worker[w].st = "push"
        /\ worker[w].item.id # ""
        /\ Cardinality(ResultLines) = Len(calculated_products) + 1

(* ---------------- C18 ---------------- *)

\* the triples whose metric is computed without error and strictly exceeds its
\* threshold
PassingTriples ==
    {t \in Unsettled \X Settled \X MetricPositions : Exceeds(t[1], t[2], t[3])}

\* C18: once the parallel pass is over the result collection has one entry for
\* each triple whose metric passes and no other entry: each pair has as many
\* entries as it has passing metrics, every entry is that of a pair with a
\* passing metric, and the length is the number of passing triples.
C18_ExactMultiplicity ==
    MatchingDone =>
        /\ \A u \in Unsettled, s \in Settled :
              Cardinality(EntriesOf(u, s))
                 = Cardinality({m \in MetricPositions : <<u, s, m>> \in PassingTriples})
        /\ \A i \in 1..Len(calculated_products) :
              \E t \in PassingTriples :
                  calculated_products[i] =
                     [id |-> products[t[1]].id, name |-> products[t[1]].name,
                      settings_id |-> products[t[2]].settings_id]
        /\ Len(calculated_products) = Cardinality(PassingTriples)

\* a pass is over in which one pair has two entries and another pair has one
C18_Witness ==
    /\ MatchingDone
    /\ Len(calculated_products) = 3
    /\ \E p \in Unsettled \X Settled, q \in Unsettled \X Settled :
          /\ Cardinality(EntriesOf(p[1], p[2])) = 2
          /\ Cardinality(EntriesOf(q[1], q[2])) = 1

(* ---------------- C19 ---------------- *)

\* C19: no expect of init_calculate fails: the lock is never poisoned and no
\* thread panics; when the parallel pass is complete the lock is free and the
\* accumulator has one owner, so the run goes on with the result vector.
C19_ExpectsHold ==
    /\ ~poisoned
    /\ panic = ""
    /\ pc # "panicked"
    /\ (pc = "for_each" /\ PassComplete) => (mutex = 0 /\ ArcStrongCount = 1)
    /\ pc \in {"ensure_calculated", "write_output", "done"} => mutex = 0

\* the result vector of a pass of two threads that pushed three entries has
\* been taken out of the Arc and the Mutex
C19_Witness ==
    /\ pc = "ensure_calculated"
    /\ settings.num_threads = 2
    /\ Len(calculated_products) = 3
    /\ ~poisoned

(* ---------------- C20 ---------------- *)

\* C20: output.json is written at most once, by a run whose parallel pass is
\* over with a non-empty result, and holds that result; a run that has failed
\* has left output.json as it found it.
C20_OutputOnlyOnSuccess ==
    /\ [](/\ ~output_file.prior =>
                /\ pc = "done"
                /\ error = ""
                /\ calculated_products # <<>>
                /\ output_file.products = calculated_products
                /\ PassComplete
          /\ pc \in {"failed", "panicked"} => output_file.prior)
    /\ [][output_file' # output_file =>
             /\ output_file.prior
             /\ pc = "write_output"
             /\ pc' = "done"]_vars

\* a run is done and output.json holds its two entries
C20_Witness ==
    /\ pc = "done"
    /\ ~output_file.prior
    /\ Len(output_file.products) = 2

====
